---- MODULE Spec2Model ----
(***************************************************************************)
(* A model of the aika discrete-event simulation kernel:                   *)
(*   environment.rs  Environment (event heap, processes, step, run,        *)
(*                   add_events), Event ordering                           *)
(*   resources.rs    Stores (queue), Resources (pool), Containers (buffer) *)
(*                                                                         *)
(* u64 time is modelled at a reduced width of TimeBits bits; the commodity *)
(* type of a container is modelled as a signed integer of AmtBits bits.    *)
(* An arithmetic overflow panics when the crate is built with overflow     *)
(* checks (cargo's dev profile) and wraps when it is built without them    *)
(* (cargo's release profile); overflow_checks records which build runs.    *)
(***************************************************************************)
EXTENDS Integers, Sequences, FiniteSets, TLC

\* ------------------------------------------------------------------ bounds

\* Width of the modelled u64 (Event.time, Environment.time, Environment.stop).
TimeBits == 2
\* Width of the modelled signed commodity type of Containers<T>.
AmtBits == 3
\* Most processes registered in one environment.
MaxProcs == 2
\* Most events held by the event heap at once.
MaxHeap == 3
\* Most events parked in one wait list (Resources.queue, Stores.gets/puts).
MaxWait == 2
\* Largest capacity of a pool or a queue.
MaxCap == 2
\* Most events pushed into the heap before run().
MaxInit == 2
\* Most pools, most buffers and most queues created in one environment.
MaxRes == 1

RECURSIVE Pow2(_)
Pow2(n) == IF n = 0 THEN 1 ELSE 2 * Pow2(n - 1)

U64Mod == Pow2(TimeBits)
U64Max == U64Mod - 1
U64 == 0..U64Max

AmtMod == Pow2(AmtBits)
AmtMax == (AmtMod \div 2) - 1
AmtMin == -(AmtMod \div 2)
Amt == AmtMin..AmtMax

\* Two's-complement wrap of a signed result.
WrapAmt(x) == ((x - AmtMin) % AmtMod) + AmtMin

\* Option<T>
None == [some |-> FALSE]
Some(v) == [some |-> TRUE, val |-> v]

\* ------------------------------------------------------------------ Event

\* struct Event<T> { time, process_id, state }
Event(t, id, s) == [time |-> t, process_id |-> id, state |-> s]

\* Reverse<Event<T>>: Reverse(a) <= Reverse(b) iff b <= a, and Event compares
\* by time alone.
RevLe(a, b) == b.time <= a.time

\* ----------------------------------------------- BinaryHeap<Reverse<Event>>
\* data is the heap's vector; position p of the vector is data[p + 1].

RECURSIVE SiftUpFrom(_, _, _, _)
SiftUpFrom(data, start, pos, elem) ==
    IF pos > start
    THEN LET parent == (pos - 1) \div 2 IN
         IF RevLe(elem, data[parent + 1])
         THEN [data EXCEPT ![pos + 1] = elem]
         ELSE SiftUpFrom([data EXCEPT ![pos + 1] = data[parent + 1]],
                         start, parent, elem)
    ELSE [data EXCEPT ![pos + 1] = elem]

RECURSIVE SiftDownToBottomFrom(_, _, _, _)
SiftDownToBottomFrom(data, start, pos, elem) ==
    LET end   == Len(data)
        child == 2 * pos + 1
    IN  IF end >= 2 /\ child <= end - 2
        THEN LET c == IF RevLe(data[child + 1], data[child + 2])
                      THEN child + 1 ELSE child
             IN  SiftDownToBottomFrom([data EXCEPT ![pos + 1] = data[c + 1]],
                                      start, c, elem)
        ELSE IF child = end - 1
             THEN SiftUpFrom([data EXCEPT ![pos + 1] = data[child + 1]],
                             start, child, elem)
             ELSE SiftUpFrom(data, start, pos, elem)

\* BinaryHeap::push
HeapPush(data, item) ==
    SiftUpFrom(Append(data, item), 0, Len(data), item)

\* BinaryHeap::pop on a non-empty heap: the item returned
HeapTop(data) == data[1]

\* BinaryHeap::pop on a non-empty heap: the vector left
HeapPopRest(data) ==
    LET item == data[Len(data)]
        rest == SubSeq(data, 1, Len(data) - 1)
    IN  IF rest = <<>> THEN rest
        ELSE SiftDownToBottomFrom(rest, 0, 0, item)

\* ------------------------------------------------------- Resources (pool)

\* Resources::new
ResourcesNew(capacity) ==
    [capacity |-> capacity, left |-> capacity, queue |-> <<>>]

\* Resources::request that parks the event while one unit is still left
ResourcesRequestEarlyPark(r, event) ==
    IF r.left > 1
    THEN [res |-> [r EXCEPT !.left = r.left - 1],
          ok  |-> TRUE,
          val |-> Event(event.time, event.process_id, event.state)]
    ELSE [res |-> [r EXCEPT !.queue = Append(r.queue, event)],
          ok  |-> FALSE,
          val |-> "Cannot request from empty resource"]

\* Resources::request: the pool after the call and the Result returned
ResourcesRequest(r, event) ==
    IF r.left > 0
    THEN [res |-> [r EXCEPT !.left = r.left - 1],
          ok  |-> TRUE,
          val |-> Event(event.time, event.process_id, event.state)]
    ELSE [res |-> [r EXCEPT !.queue = Append(r.queue, event)],
          ok  |-> FALSE,
          val |-> "Cannot request from empty resource"]

\* Resources::release with the unit both handed to the waiter and put back
ResourcesReleaseLeak(r, event) ==
    IF r.queue # <<>>
    THEN [res   |-> [r EXCEPT !.queue = Tail(r.queue), !.left = r.left + 1],
          ret   |-> Some(Event(event.time, Head(r.queue).process_id,
                               Head(r.queue).state)),
          panic |-> FALSE]
    ELSE IF r.left < r.capacity
         THEN [res |-> [r EXCEPT !.left = r.left + 1],
               ret |-> None, panic |-> FALSE]
         ELSE [res |-> r, ret |-> None, panic |-> TRUE]

\* Resources::release: the pool after the call, the Option returned, and
\* whether the assertion failed
ResourcesRelease(r, event) ==
    IF r.queue # <<>>
    THEN [res   |-> [r EXCEPT !.queue = Tail(r.queue)],
          ret   |-> Some(Event(event.time, Head(r.queue).process_id,
                               Head(r.queue).state)),
          panic |-> FALSE]
    ELSE IF r.left < r.capacity
         THEN [res |-> [r EXCEPT !.left = r.left + 1],
               ret |-> None, panic |-> FALSE]
         ELSE [res |-> r, ret |-> None, panic |-> TRUE]

\* ---------------------------------------------------------- Stores (queue)

\* Stores::new
StoresNew(capacity) ==
    [capacity |-> capacity, gets |-> <<>>, puts |-> <<>>, state |-> <<>>]

\* Stores::get that leaves a parked put parked
StoresGetNoAdmit(s, event) ==
    IF s.state # <<>>
    THEN [res |-> [s EXCEPT !.state = Tail(s.state)],
          ok  |-> TRUE,
          val |-> Event(event.time, event.process_id, Head(s.state).state)]
    ELSE [res |-> [s EXCEPT !.gets = Append(s.gets, event)],
          ok  |-> FALSE,
          val |-> "Cannot get from empty store"]

\* Stores::get: the queue after the call and the Result returned
StoresGet(s, event) ==
    IF s.state # <<>>
    THEN LET popped == Tail(s.state)
             admitted == IF s.puts # <<>>
                         THEN [s EXCEPT !.state = Append(popped, Head(s.puts)),
                                        !.puts = Tail(s.puts)]
                         ELSE [s EXCEPT !.state = popped]
         IN  [res |-> admitted,
              ok  |-> TRUE,
              val |-> Event(event.time, event.process_id, Head(s.state).state)]
    ELSE [res |-> [s EXCEPT !.gets = Append(s.gets, event)],
          ok  |-> FALSE,
          val |-> "Cannot get from empty store"]

\* Stores::put that admits the item at the front of state
StoresPutFront(s, event) ==
    IF Len(s.state) < s.capacity
    THEN [s EXCEPT !.state = <<event>> \o s.state]
    ELSE [s EXCEPT !.puts = Append(s.puts, event)]

\* Stores::put
StoresPut(s, event) ==
    IF Len(s.state) < s.capacity
    THEN [s EXCEPT !.state = Append(s.state, event)]
    ELSE [s EXCEPT !.puts = Append(s.puts, event)]

\* ---------------------------------------------------- Containers (buffer)
\* The commodity type T is modelled by its amount, a signed integer.

\* Containers::new
ContainersNew(capacity, init) ==
    [container_capacity |-> capacity, init |-> 0, chain |-> <<init>>]

\* Vec::pop on chain: the vector left
ChainPopped(c) == SubSeq(c.chain, 1, Len(c.chain) - 1)

\* Containers::get: the buffer after the call and the Result returned
ContainersGet(c, amount) ==
    IF amount >= 0
    THEN IF c.chain # <<>>
         THEN LET value == c.chain[Len(c.chain)] IN
              IF value >= amount
              THEN [res |-> [c EXCEPT !.chain =
                                Append(ChainPopped(c), value - amount)],
                    ok |-> TRUE, val |-> amount]
              ELSE [res |-> [c EXCEPT !.chain = ChainPopped(c)],
                    ok |-> FALSE, val |-> "Cannot have negative reserves"]
         ELSE [res |-> c, ok |-> TRUE, val |-> 0]
    ELSE [res |-> c, ok |-> FALSE, val |-> "Cannot have negative get amount"]

\* Containers::put: the buffer after the call, and whether value.add(amount)
\* overflowed in a build with overflow checks
ContainersPut(c, amount, checks) ==
    IF c.chain # <<>>
    THEN LET value == c.chain[Len(c.chain)]
             sum   == value + amount
         IN  IF checks /\ (sum > AmtMax \/ sum < AmtMin)
             THEN [res |-> [c EXCEPT !.chain = ChainPopped(c)], panic |-> TRUE]
             ELSE IF WrapAmt(sum) > c.container_capacity
                  THEN [res |-> [c EXCEPT !.chain =
                                   Append(ChainPopped(c), c.container_capacity)],
                        panic |-> FALSE]
                  ELSE [res |-> [c EXCEPT !.chain =
                                   Append(ChainPopped(c), WrapAmt(sum))],
                        panic |-> FALSE]
    ELSE [res |-> c, panic |-> FALSE]

\* The level of a buffer: the last element of chain, when there is one
HasLevel(c) == c.chain # <<>>
Level(c) == c.chain[Len(c.chain)]

\* ------------------------------------------------------------ Environment

VARIABLES
    events,          \* Environment.events: the vector of the binary heap
    past_events,     \* Environment.past_events
    processes,       \* Environment.processes: id i is processes[i + 1]
    stores,          \* Environment.stores
    containers,      \* Environment.containers
    resources,       \* Environment.resources
    time,            \* Environment.time
    stop,            \* Environment.stop
    rng,             \* Environment.rng: the number of draws taken from it
    logs,            \* Environment.logs
    completed,       \* ids of the processes whose generator has returned
    pc,              \* "setup", "running" (inside run), "returned", "panicked"
    overflow_checks, \* TRUE: built with overflow checks; FALSE: without
    fifo,            \* history: the pending events in insertion order
    holders,         \* history: per process id, the pool units it holds
    ret              \* history: what the last call on a resource returned

vars == <<events, past_events, processes, stores, containers, resources, time,
          stop, rng, logs, completed, pc, overflow_checks, fifo, holders, ret>>

\* enum ProcessDuration
Infinite(start) == [kind |-> "Infinite", start |-> start, end |-> 0]
Finite(start, end) == [kind |-> "Finite", start |-> start, end |-> end]

\* enum ProcessExecution
Standard == [kind |-> "Standard", delta |-> 0, dur |-> Infinite(0)]
Constant(delta, dur) == [kind |-> "Constant", delta |-> delta, dur |-> dur]
Deterministic(f, dur) == [kind |-> "Deterministic", delta |-> f, dur |-> dur]
Stochastic(dur) == [kind |-> "Stochastic", delta |-> 0, dur |-> dur]

\* The functions fn(u64) -> u64 a Deterministic policy is given in this model,
\* by number.
EventsPath(f, t) == IF f = 1 THEN 1 ELSE (t % 2) + 1

\* enum Yield, carried by a value of the process's type T: tag and arguments,
\* and amt, the amount the value stands for under T's ordering and arithmetic.
YieldVal(tag, arg, id, amt) == [tag |-> tag, arg |-> arg, id |-> id, amt |-> amt]
Timeout(delta) == YieldVal("Timeout", delta, 0, 0)
Pause == YieldVal("Pause", 0, 0, 0)
AddEvent(time_delta, process_id) == YieldVal("AddEvent", time_delta, process_id, 0)
RequestResource(r) == YieldVal("RequestResource", r, 0, 0)
ReleaseResource(r) == YieldVal("ReleaseResource", r, 0, 0)
GetContainer(c, amt) == YieldVal("GetContainer", c, 0, amt)
PutContainer(c, amt) == YieldVal("PutContainer", c, 0, amt)
GetStore(s) == YieldVal("GetStore", s, 0, 0)
PutStore(s) == YieldVal("PutStore", s, 0, 0)

\* GeneratorState::Complete
Complete == YieldVal("Complete", 0, 0, 0)

\* What a call on a resource returned: a Result (ok: it is Ok) or an Option
\* (ok: it is Some), and inside it the events (none or one), the amount (0
\* when it holds none) or the error ("" when it holds none).
Returned(op, ok, event, amount, err) ==
    [op |-> op, ok |-> ok, event |-> event, amount |-> amount, err |-> err]

\* Environment::new
EnvNew(h) ==
    /\ events = <<>>
    /\ past_events = <<>>
    /\ processes = <<>>
    /\ stores = <<>>
    /\ containers = <<>>
    /\ resources = <<>>
    /\ time = 0
    /\ stop = h
    /\ rng = 0
    /\ logs = FALSE
    /\ completed = {}
    /\ pc = "setup"
    /\ fifo = <<>>
    /\ holders = [i \in 0..MaxProcs |-> 0]
    /\ ret = Returned("none", FALSE, <<>>, 0, "")

\* The first event of s equal to e removed
RECURSIVE RemoveFirst(_, _)
RemoveFirst(s, e) ==
    IF s = <<>> THEN s
    ELSE IF Head(s) = e THEN Tail(s)
    ELSE <<Head(s)>> \o RemoveFirst(Tail(s), e)

\* The state one dispatch works on: the heap, the resources, and whether a
\* panic has unwound the dispatch.
Eff(ev, ff, rs, cs, ss, p) ==
    [events |-> ev, fifo |-> ff, resources |-> rs, containers |-> cs,
     stores |-> ss, panic |-> p]

\* Environment::add_events, called at time now
AddEvents(e, now, id, time_delta, state) ==
    LET sum == now + time_delta IN
    IF sum > U64Max /\ overflow_checks
    THEN [e EXCEPT !.panic = TRUE]
    ELSE LET at == sum % U64Mod IN
         IF at > stop THEN e
         ELSE IF time_delta = 0 THEN e
         ELSE [e EXCEPT !.events = HeapPush(e.events, Event(at, id, state)),
                        !.fifo = Append(e.fifo, Event(at, id, state))]

\* Vec::get_mut(i).unwrap() succeeds
InRange(v, i) == i < Len(v)

\* Environment::step, the match on val.output(): the effect of the yield val
\* of process process_id at time now
Interpret(e, now, process_id, val) ==
    LET i  == val.arg
        ev == Event(now, process_id, val)
    IN
    CASE val.tag = "Timeout" ->
            AddEvents(e, now, process_id, val.arg, val)
      [] val.tag = "Pause" -> e
      [] val.tag = "AddEvent" ->
            AddEvents(e, now, val.id, val.arg, val)
      [] val.tag = "RequestResource" ->
            IF ~InRange(e.resources, i) THEN [e EXCEPT !.panic = TRUE]
            ELSE LET r == ResourcesRequest(e.resources[i + 1], ev) IN
                 [e EXCEPT !.resources[i + 1] = r.res, !.panic = ~r.ok]
      [] val.tag = "ReleaseResource" ->
            IF ~InRange(e.resources, i) THEN [e EXCEPT !.panic = TRUE]
            ELSE LET r == ResourcesRelease(e.resources[i + 1], ev) IN
                 [e EXCEPT !.resources[i + 1] = r.res,
                           !.panic = r.panic \/ ~r.ret.some]
      [] val.tag = "GetContainer" ->
            IF ~InRange(e.containers, i) THEN [e EXCEPT !.panic = TRUE]
            ELSE LET r == ContainersGet(e.containers[i + 1], val.amt) IN
                 [e EXCEPT !.containers[i + 1] = r.res, !.panic = ~r.ok]
      [] val.tag = "PutContainer" ->
            IF ~InRange(e.containers, i) THEN [e EXCEPT !.panic = TRUE]
            ELSE LET r == ContainersPut(e.containers[i + 1], val.amt,
                                        overflow_checks) IN
                 [e EXCEPT !.containers[i + 1] = r.res, !.panic = r.panic]
      [] val.tag = "GetStore" ->
            IF ~InRange(e.stores, i) THEN [e EXCEPT !.panic = TRUE]
            ELSE LET r == StoresGet(e.stores[i + 1], ev) IN
                 [e EXCEPT !.stores[i + 1] = r.res, !.panic = ~r.ok]
      [] val.tag = "PutStore" ->
            IF ~InRange(e.stores, i) THEN [e EXCEPT !.panic = TRUE]
            ELSE [e EXCEPT !.stores[i + 1] = StoresPut(e.stores[i + 1], ev)]

\* Environment::step, GeneratorState::Yielded(val): the yield's effect, then
\* the self-event of the policy
Yielded(e, now, process_id, time_delta, val) ==
    LET after == Interpret(e, now, process_id, val) IN
    IF after.panic THEN after
    ELSE AddEvents(after, now, process_id, time_delta, val)

\* The lifetime test of Environment::step left out
ExpiredNever(policy, now) == FALSE

\* The lifetime test of Environment::step with the event at time end dropped
ExpiredAtEnd(policy, now) ==
    /\ policy.kind # "Standard"
    /\ policy.dur.kind = "Finite"
    /\ policy.dur.end <= now

\* Environment::step, the match on sim_process.time_delta: whether the event is
\* dropped (the early return past the end of a Finite duration)
Expired(policy, now) ==
    /\ policy.kind # "Standard"
    /\ policy.dur.kind = "Finite"
    /\ policy.dur.end < now

\* Environment::step, the match on sim_process.time_delta: the delta
TimeDelta(policy, now, sample) ==
    CASE policy.kind = "Standard" -> 0
      [] policy.kind = "Constant" -> policy.delta
      [] policy.kind = "Deterministic" -> EventsPath(policy.delta, now)
      [] policy.kind = "Stochastic" -> sample

\* The wait lists and the heap stay within the model's bounds
WithinBounds(e) ==
    /\ Len(e.events) <= MaxHeap
    /\ \A i \in 1..Len(e.resources) : Len(e.resources[i].queue) <= MaxWait
    /\ \A i \in 1..Len(e.stores) :
          /\ Len(e.stores[i].gets) <= MaxWait
          /\ Len(e.stores[i].puts) <= MaxWait

\* Environment::step with an event of an unregistered process skipped
StepSkipsUnknown(out, sample) ==
    /\ pc = "running"
    /\ events # <<>>
    /\ LET event      == HeapTop(events)
           process_id == event.process_id
           now        == event.time
           popped     == Eff(HeapPopRest(events), RemoveFirst(fifo, event),
                             resources, containers, stores, FALSE)
           known      == process_id < Len(processes)
           policy     == processes[process_id + 1]
           dropped    == known /\ Expired(policy, now)
           draws      == known /\ ~dropped /\ policy.kind = "Stochastic"
           resumed    == known /\ ~dropped /\ process_id \notin completed
           e == IF ~known THEN popped
                ELSE IF dropped THEN popped
                ELSE IF process_id \in completed
                     THEN [popped EXCEPT !.panic = TRUE]
                ELSE IF out = Complete THEN popped
                ELSE Yielded(popped, now, process_id,
                             TimeDelta(policy, now, sample), out)
       IN  /\ WithinBounds(e)
           /\ time' = now
           /\ rng' = IF draws THEN rng + 1 ELSE rng
           /\ completed' = IF resumed /\ out = Complete
                           THEN completed \cup {process_id} ELSE completed
           /\ events' = e.events
           /\ fifo' = e.fifo
           /\ resources' = e.resources
           /\ containers' = e.containers
           /\ stores' = e.stores
           /\ pc' = IF e.panic THEN "panicked" ELSE "running"
    /\ UNCHANGED <<past_events, processes, stop, logs, overflow_checks,
                   holders, ret>>

\* Environment::step. out is what the generator does when resumed (a value it
\* yields, or Complete); sample is what distribution.sample(rng).round() as u64
\* gives if the policy draws.
Step(out, sample) ==
    /\ pc = "running"
    /\ events # <<>>
    /\ LET event      == HeapTop(events)
           process_id == event.process_id
           now        == event.time
           popped     == Eff(HeapPopRest(events), RemoveFirst(fifo, event),
                             resources, containers, stores, FALSE)
           known      == process_id < Len(processes)
           policy     == processes[process_id + 1]
           dropped    == known /\ Expired(policy, now)
           draws      == known /\ ~dropped /\ policy.kind = "Stochastic"
           resumed    == known /\ ~dropped /\ process_id \notin completed
           e == IF ~known THEN [popped EXCEPT !.panic = TRUE]
                ELSE IF dropped THEN popped
                ELSE IF process_id \in completed
                     THEN [popped EXCEPT !.panic = TRUE]
                ELSE IF out = Complete THEN popped
                ELSE Yielded(popped, now, process_id,
                             TimeDelta(policy, now, sample), out)
       IN  /\ WithinBounds(e)
           /\ time' = now
           /\ rng' = IF draws THEN rng + 1 ELSE rng
           /\ completed' = IF resumed /\ out = Complete
                           THEN completed \cup {process_id} ELSE completed
           /\ events' = e.events
           /\ fifo' = e.fifo
           /\ resources' = e.resources
           /\ containers' = e.containers
           /\ stores' = e.stores
           /\ pc' = IF e.panic THEN "panicked" ELSE "running"
    /\ UNCHANGED <<past_events, processes, stop, logs, overflow_checks,
                   holders, ret>>

\* Environment::run, entered
Run ==
    /\ pc = "setup"
    /\ pc' = IF time < stop THEN "running" ELSE "returned"
    /\ UNCHANGED <<events, past_events, processes, stores, containers,
                   resources, time, stop, rng, logs, completed,
                   overflow_checks, fifo, holders, ret>>

\* Environment::run, the while loop ended
Return ==
    /\ pc = "running"
    /\ events = <<>>
    /\ pc' = "returned"
    /\ UNCHANGED <<events, past_events, processes, stores, containers,
                   resources, time, stop, rng, logs, completed,
                   overflow_checks, fifo, holders, ret>>

\* ------------------------------------------- the public API, before run()

\* Environment::add_process
AddProcess(time_delta) ==
    /\ pc = "setup"
    /\ Len(processes) < MaxProcs
    /\ processes' = Append(processes, time_delta)
    /\ UNCHANGED <<events, past_events, stores, containers, resources, time,
                   stop, rng, logs, completed, pc, overflow_checks, fifo,
                   holders, ret>>

\* Environment::create_stores
CreateStores(capacity) ==
    /\ pc = "setup"
    /\ Len(stores) < MaxRes
    /\ stores' = Append(stores, StoresNew(capacity))
    /\ UNCHANGED <<events, past_events, processes, containers, resources,
                   time, stop, rng, logs, completed, pc, overflow_checks,
                   fifo, holders, ret>>

\* Environment::create_containers
CreateContainers(capacity, init) ==
    /\ pc = "setup"
    /\ Len(containers) < MaxRes
    /\ containers' = Append(containers, ContainersNew(capacity, init))
    /\ UNCHANGED <<events, past_events, processes, stores, resources, time,
                   stop, rng, logs, completed, pc, overflow_checks, fifo,
                   holders, ret>>

\* Environment::create_resources
CreateResources(capacity) ==
    /\ pc = "setup"
    /\ Len(resources) < MaxRes
    /\ resources' = Append(resources, ResourcesNew(capacity))
    /\ UNCHANGED <<events, past_events, processes, stores, containers, time,
                   stop, rng, logs, completed, pc, overflow_checks, fifo,
                   holders, ret>>

\* Environment::set_logs
SetLogs(b) ==
    /\ pc = "setup"
    /\ logs' = b
    /\ UNCHANGED <<events, past_events, processes, stores, containers,
                   resources, time, stop, rng, completed, pc, overflow_checks,
                   fifo, holders, ret>>

\* env.events.push(Reverse(event)): events is a public field
PushEvent(event) ==
    /\ pc = "setup"
    /\ Len(events) < MaxInit
    /\ events' = HeapPush(events, event)
    /\ fifo' = Append(fifo, event)
    /\ UNCHANGED <<past_events, processes, stores, containers, resources,
                   time, stop, rng, logs, completed, pc, overflow_checks,
                   holders, ret>>

\* Environment::add_events, called by the user
AddEventsCall(id, time_delta, state) ==
    /\ pc = "setup"
    /\ Len(events) < MaxInit
    /\ LET e == AddEvents(Eff(events, fifo, resources, containers, stores,
                              FALSE), time, id, time_delta, state)
       IN  /\ events' = e.events
           /\ fifo' = e.fifo
           /\ pc' = IF e.panic THEN "panicked" ELSE pc
    /\ UNCHANGED <<past_events, processes, stores, containers, resources,
                   time, stop, rng, logs, completed, overflow_checks,
                   holders, ret>>

\* env.resources[0].request(event): resources is a public field.
\* holders counts the event's process as a holder when the call returns Ok.
PoolRequest(event) ==
    /\ pc = "setup"
    /\ resources # <<>>
    /\ Len(resources[1].queue) < MaxWait
    /\ LET r == ResourcesRequest(resources[1], event) IN
       /\ resources' = [resources EXCEPT ![1] = r.res]
       /\ ret' = IF r.ok THEN Returned("request", TRUE, <<r.val>>, 0, "")
                 ELSE Returned("request", FALSE, <<>>, 0, r.val)
       /\ holders' = IF r.ok
                     THEN [holders EXCEPT ![event.process_id] = @ + 1]
                     ELSE holders
    /\ UNCHANGED <<events, past_events, processes, stores, containers, time,
                   stop, rng, logs, completed, pc, overflow_checks, fifo>>

\* env.resources[0].release(event), by a process that holds a unit. The
\* releaser stops being a holder; a waiter handed the unit becomes one.
PoolRelease(event) ==
    /\ pc = "setup"
    /\ resources # <<>>
    /\ holders[event.process_id] > 0
    /\ LET r == ResourcesRelease(resources[1], event)
           given == [holders EXCEPT ![event.process_id] = @ - 1]
       IN
       /\ resources' = [resources EXCEPT ![1] = r.res]
       /\ ret' = IF r.ret.some
                 THEN Returned("release", TRUE, <<r.ret.val>>, 0, "")
                 ELSE Returned("release", FALSE, <<>>, 0, "")
       /\ pc' = IF r.panic THEN "panicked" ELSE pc
       /\ holders' = IF r.panic THEN holders
                     ELSE IF r.ret.some
                          THEN [given EXCEPT ![r.ret.val.process_id] = @ + 1]
                          ELSE given
    /\ UNCHANGED <<events, past_events, processes, stores, containers, time,
                   stop, rng, logs, completed, overflow_checks, fifo>>

\* env.containers[0].get(amount)
BufferGet(amount) ==
    /\ pc = "setup"
    /\ containers # <<>>
    /\ LET r == ContainersGet(containers[1], amount) IN
       /\ containers' = [containers EXCEPT ![1] = r.res]
       /\ ret' = IF r.ok THEN Returned("get", TRUE, <<>>, r.val, "")
                 ELSE Returned("get", FALSE, <<>>, 0, r.val)
    /\ UNCHANGED <<events, past_events, processes, stores, resources, time,
                   stop, rng, logs, completed, pc, overflow_checks, fifo,
                   holders>>

\* env.containers[0].put(amount)
BufferPut(amount) ==
    /\ pc = "setup"
    /\ containers # <<>>
    /\ LET r == ContainersPut(containers[1], amount, overflow_checks) IN
       /\ containers' = [containers EXCEPT ![1] = r.res]
       /\ pc' = IF r.panic THEN "panicked" ELSE pc
       /\ ret' = Returned("put", ~r.panic, <<>>, 0, "")
    /\ UNCHANGED <<events, past_events, processes, stores, resources, time,
                   stop, rng, logs, completed, overflow_checks, fifo,
                   holders>>

\* env.stores[0].get(event)
StoreGet(event) ==
    /\ pc = "setup"
    /\ stores # <<>>
    /\ Len(stores[1].gets) < MaxWait
    /\ LET r == StoresGet(stores[1], event) IN
       /\ stores' = [stores EXCEPT ![1] = r.res]
       /\ ret' = IF r.ok THEN Returned("get", TRUE, <<r.val>>, 0, "")
                 ELSE Returned("get", FALSE, <<>>, 0, r.val)
    /\ UNCHANGED <<events, past_events, processes, containers, resources,
                   time, stop, rng, logs, completed, pc, overflow_checks,
                   fifo, holders>>

\* env.stores[0].put(event)
StorePut(event) ==
    /\ pc = "setup"
    /\ stores # <<>>
    /\ Len(stores[1].puts) < MaxWait
    /\ stores' = [stores EXCEPT ![1] = StoresPut(stores[1], event)]
    /\ ret' = Returned("put", TRUE, <<>>, 0, "")
    /\ UNCHANGED <<events, past_events, processes, containers, resources,
                   time, stop, rng, logs, completed, pc, overflow_checks,
                   fifo, holders>>

\* ------------------------------------------------------------ a pool alone

\* The events handed to request: any process, at time 0
PoolRequestEvents ==
    {Event(0, id, RequestResource(0)) : id \in 0..MaxProcs}

\* The events handed to release: any process, at time 1
PoolReleaseEvents ==
    {Event(1, id, ReleaseResource(0)) : id \in 0..MaxProcs}

InitPool ==
    /\ EnvNew(U64Max)
    /\ overflow_checks \in BOOLEAN

NextPool ==
    \/ \E capacity \in 0..MaxCap : CreateResources(capacity)
    \/ \E event \in PoolRequestEvents : PoolRequest(event)
    \/ \E event \in PoolReleaseEvents : PoolRelease(event)

SpecPool == InitPool /\ [][NextPool]_vars

RECURSIVE SumUpTo(_, _)
SumUpTo(f, n) == IF n < 0 THEN 0 ELSE f[n] + SumUpTo(f, n - 1)

\* The number of outstanding holders of pool 0
Outstanding == SumUpTo(holders, MaxProcs)

\* C6. Pool conservation: after any sequence of requests, and of releases
\* issued by a current holder, available + outstanding holders = capacity.
C6_PoolConservation ==
    resources # <<>> =>
        resources[1].left + Outstanding = resources[1].capacity

\* C6's case: a release has just handed the unit to a parked waiter while
\* another waiter is still parked.
C6_Witness ==
    /\ resources # <<>>
    /\ ret.op = "release" /\ ret.ok
    /\ resources[1].queue # <<>>
    /\ Outstanding = resources[1].capacity
    /\ resources[1].capacity = MaxCap

\* ---------------------------------------------------------- a buffer alone

InitBuffer ==
    /\ EnvNew(U64Max)
    /\ overflow_checks \in BOOLEAN

NextBuffer ==
    \/ \E capacity \in 0..AmtMax : \E init \in 0..capacity :
          CreateContainers(capacity, init)
    \/ \E amount \in Amt : BufferGet(amount)
    \/ \E amount \in Amt : BufferPut(amount)

SpecBuffer == InitBuffer /\ [][NextBuffer]_vars

\* C8. Buffer bounds: for a buffer created with 0 <= initial level <= capacity,
\* after any sequence of get and put calls with arbitrary amounts, negative
\* ones included, 0 <= level <= capacity.
C8_BufferBounds ==
    \A i \in 1..Len(containers) :
        HasLevel(containers[i]) =>
            /\ 0 <= Level(containers[i])
            /\ Level(containers[i]) <= containers[i].container_capacity

\* C9. A get(amount) with level < amount returns the underflow error and
\* leaves the level unchanged.
C9_UnderflowKeepsLevel ==
    [][\A amount \in Amt :
         ( /\ BufferGet(amount)
           /\ HasLevel(containers[1])
           /\ amount >= 0
           /\ Level(containers[1]) < amount )
         => ( /\ ~ret'.ok
              /\ HasLevel(containers'[1])
              /\ Level(containers'[1]) = Level(containers[1]) )]_vars

\* ----------------------------------------------------------- a queue alone

\* The events handed to put: the producer is process 0, at time 0, and the
\* payload is amt
StorePutEvents == {Event(0, 0, YieldVal("PutStore", 0, 0, a)) : a \in 0..2}

\* The events handed to get: the consumer is process 1, at time 1
StoreGetEvents == {Event(1, 1, GetStore(0))}

InitStore ==
    /\ EnvNew(U64Max)
    /\ overflow_checks \in BOOLEAN

NextStore ==
    \/ \E capacity \in 0..MaxCap : CreateStores(capacity)
    \/ \E event \in StoreGetEvents : StoreGet(event)
    \/ \E event \in StorePutEvents : StorePut(event)

SpecStore == InitStore /\ [][NextStore]_vars

\* C10. Queue capacity: after any sequence of puts and gets on a queue of
\* capacity N, |items| <= N, and pending_puts is non-empty only when
\* |items| = N.
C10_QueueCapacity ==
    \A i \in 1..Len(stores) :
        /\ Len(stores[i].state) <= stores[i].capacity
        /\ stores[i].puts # <<>> =>
              Len(stores[i].state) = stores[i].capacity

\* C10's case: a get has just taken an item from a full queue of capacity
\* MaxCap and admitted a parked put, and another put is still parked.
C10_Witness ==
    /\ stores # <<>>
    /\ stores[1].capacity = MaxCap
    /\ ret.op = "get" /\ ret.ok
    /\ stores[1].puts # <<>>

\* C11. Queue waiter/item exclusion: after any sequence of puts and gets, at
\* most one of items (state) and pending_gets (gets) is non-empty.
C11_WaiterItemExclusion ==
    \A i \in 1..Len(stores) :
        ~(stores[i].state # <<>> /\ stores[i].gets # <<>>)

\* ------------------------------------------------------------ the scheduler

\* The policies processes are registered with
SchedPolicies == {Standard, Constant(1, Infinite(0))}

\* What a resumed generator does
SchedYields ==
    {Timeout(d) : d \in {1, U64Max}}
        \cup {AddEvent(1, id) : id \in 0..(MaxProcs - 1)}
        \cup {Pause, Complete}

\* What a rounded sample can be
Samples == {0}

\* The events pushed before run()
InitEvents == {Event(t, id, Pause) : t \in U64, id \in 0..(MaxProcs - 1)}

Init ==
    /\ \E h \in U64 : EnvNew(h)
    /\ overflow_checks \in BOOLEAN

Next ==
    \/ \E policy \in SchedPolicies : AddProcess(policy)
    \/ \E event \in InitEvents : PushEvent(event)
    \/ \E id \in 0..(MaxProcs - 1), d \in {1, U64Max} :
          AddEventsCall(id, d, Pause)
    \/ Run
    \/ \E out \in SchedYields, sample \in Samples : Step(out, sample)
    \/ Return

Spec == Init /\ [][Next]_vars

\* The pending event insertion order puts first among those of least time
FifoNext(s) ==
    LET least == CHOOSE i \in 1..Len(s) :
                    \A j \in 1..Len(s) :
                        \/ s[i].time < s[j].time
                        \/ (s[i].time = s[j].time /\ i <= j)
    IN  s[least]

\* C1. Monotone time: the successive values of Environment.time never
\* decrease.
C1_MonotoneTime == [][time' >= time]_vars

\* C2. Horizon: no event with time > stop is dispatched; current_time is never
\* advanced past the horizon, whatever events the queue held when run() was
\* called.
C2_Horizon == time <= stop

\* C3. FIFO tie-break: the event the next dispatch pops is, among the pending
\* events of least time, the one inserted first.
C3_FifoTieBreak ==
    (pc = "running" /\ events # <<>>) => HeapTop(events) = FifoNext(fifo)

\* ------------------------------------------------ the run loop, with fairness
\* run() is the loop `while !self.events.is_empty() { self.step(); }`: while the
\* heap holds an event a dispatch follows, and once it is empty run() returns.
\* The processes here have the Standard policy and yield Timeout or Pause, so
\* a dispatch pushes at most the one event it popped and the heap never
\* outgrows what was pushed before run().

LiveYields == {Timeout(1), Timeout(U64Max), Pause}

LiveStep == \E out \in LiveYields : Step(out, 0)

NextLive ==
    \/ AddProcess(Standard)
    \/ \E event \in InitEvents : PushEvent(event)
    \/ Run
    \/ LiveStep
    \/ Return

SpecLive ==
    Init /\ [][NextLive]_vars /\ WF_vars(LiveStep) /\ WF_vars(Return)

\* C4. Termination: once run() is entered it returns (or aborts) after
\* finitely many dispatch steps.
C4_Terminates == (pc = "running") ~> (pc # "running")

\* ------------------------------------------------- the scheduler and a pool
\* Processes that request and release units of pool 0. Waiters can be parked
\* before run() by calling request on the pool directly.

PoolYields == {RequestResource(0), ReleaseResource(0), Pause}

\* The events handed to request before run()
ParkedEvents ==
    {Event(0, id, RequestResource(0)) : id \in 0..(MaxProcs - 1)}

InitPoolEnv ==
    /\ EnvNew(U64Max)
    /\ overflow_checks \in BOOLEAN

NextPoolEnv ==
    \/ AddProcess(Standard)
    \/ \E capacity \in 0..MaxCap : CreateResources(capacity)
    \/ \E event \in ParkedEvents : PoolRequest(event)
    \/ \E event \in InitEvents : PushEvent(event)
    \/ Run
    \/ \E out \in PoolYields : Step(out, 0)
    \/ Return

SpecPoolEnv == InitPoolEnv /\ [][NextPoolEnv]_vars

\* The next dispatch resumes the generator of a registered, live process
NextIsResumed ==
    /\ pc = "running"
    /\ events # <<>>
    /\ HeapTop(events).process_id < Len(processes)
    /\ ~Expired(processes[HeapTop(events).process_id + 1], HeapTop(events).time)
    /\ HeapTop(events).process_id \notin completed

\* C7. When a process yields ReleaseResource(0) at time t while pool 0 has
\* parked waiters, the head waiter leaves the wait list and an event for that
\* waiter's process is enqueued at time t.
C7_ReleaseWakesHead ==
    [][( /\ NextIsResumed
         /\ resources # <<>>
         /\ resources[1].queue # <<>>
         /\ Step(ReleaseResource(0), 0) )
       => ( /\ resources'[1].queue = Tail(resources[1].queue)
            /\ \E i \in 1..Len(events') :
                  /\ events'[i].process_id = Head(resources[1].queue).process_id
                  /\ events'[i].time = time' )]_vars

\* ------------------------------------------------------ a periodic process
\* One process with the policy Constant(delta, duration), delta > 0, whose
\* first event is pushed at time 0 before run() and whose generator yields
\* Pause every time it is resumed.

\* The policies: every delta > 0, with Infinite(0) and with Finite(0, end)
PeriodicPolicies ==
    {Constant(delta, Infinite(0)) : delta \in 1..U64Max}
        \cup {Constant(delta, Finite(0, end)) : delta \in 1..U64Max, end \in U64}

NextPeriodic ==
    \/ \E policy \in PeriodicPolicies : processes = <<>> /\ AddProcess(policy)
    \/ processes # <<>> /\ events = <<>> /\ PushEvent(Event(0, 0, Pause))
    \/ events # <<>> /\ Run
    \/ Step(Pause, 0)
    \/ Return

SpecPeriodic == Init /\ [][NextPeriodic]_vars

\* The bound on the resumption times of a process: stop, and the end of a
\* Finite duration
Bound(policy) ==
    IF policy.dur.kind = "Finite" /\ policy.dur.end < stop
    THEN policy.dur.end ELSE stop

\* C12. Periodic dispatch times: a process with policy Constant(d, lifetime),
\* d > 0, whose first event is at time 0 and which yields Pause, is resumed
\* exactly at the times 0, d, 2d, ... up to the bound (stop, and end for
\* Finite(0, end)): the first resumption is at time 0, each later one is d
\* after the dispatch before it, none is beyond the bound, and when run() has
\* returned no event is left and the next multiple is beyond the bound.
C12_PeriodicTimes ==
    /\ [][(NextIsResumed /\ Step(Pause, 0)) =>
            /\ \/ HeapTop(events).time = 0 /\ time = 0
               \/ HeapTop(events).time = time + processes[1].delta
            /\ HeapTop(events).time <= Bound(processes[1])]_vars
    /\ [](pc = "returned" =>
            /\ events = <<>>
            /\ time + processes[1].delta > Bound(processes[1]))

\* ----------------------------------------------------------- registration

\* C13. Registration schedules the initial event: add_process(process, policy)
\* gives the process the next dense id (the number of processes registered
\* before it) and leaves an event for that id pending at the start of the
\* policy's lifetime, so that run() dispatches the process with no event
\* inserted by any other means.
C13_RegistrationSchedules ==
    [][\A policy \in SchedPolicies :
         AddProcess(policy) =>
            /\ processes' = Append(processes, policy)
            /\ \E i \in 1..Len(events') :
                  /\ events'[i].process_id = Len(processes)
                  /\ events'[i].time = policy.dur.start]_vars

\* ----------------------------------------------------------- the history
\* Processes with the Standard policy, logging switched on or off before
\* run(), events pushed before run().

HistoryYields == {Pause, Timeout(1), Complete}

HistoryStep == \E out \in HistoryYields : Step(out, 0)

NextHistory ==
    \/ AddProcess(Standard)
    \/ \E b \in BOOLEAN : SetLogs(b)
    \/ \E event \in InitEvents : PushEvent(event)
    \/ Run
    \/ HistoryStep
    \/ Return

SpecHistory == Init /\ [][NextHistory]_vars

\* C14. History: with logging enabled every dispatch step appends one entry to
\* past_events, with the time and process_id of the dispatched event, and
\* nothing else changes past_events; with logging off it stays as it is.
C14_History ==
    [][IF logs /\ NextIsResumed /\ HistoryStep
       THEN /\ Len(past_events') = Len(past_events) + 1
            /\ SubSeq(past_events', 1, Len(past_events)) = past_events
            /\ past_events'[Len(past_events')].time = HeapTop(events).time
            /\ past_events'[Len(past_events')].process_id =
                  HeapTop(events).process_id
       ELSE past_events' = past_events]_vars

\* C15. Inclusive horizon: when run() has returned, no event with time <= stop
\* is left pending, whether it was pushed before run() or created during the
\* run, an event at time stop and the case stop = 0 included.
C15_InclusiveHorizon ==
    pc = "returned" =>
        \A i \in 1..Len(events) : events[i].time > stop

\* ------------------------------------------------------- structural errors
\* Processes whose yields name pool, buffer and queue indices that have or
\* have not been created, events pushed for process ids that are or are not
\* registered, and generators that return.

\* The yields: every kind of resource yield, naming index 0 up to MaxRes (an
\* index that is never created), and an event added for the id MaxProcs (an
\* id that is never registered)
FatalYields ==
    {Pause, Complete, Timeout(1), AddEvent(1, MaxProcs)}
        \cup {RequestResource(i) : i \in 0..MaxRes}
        \cup {ReleaseResource(i) : i \in 0..MaxRes}
        \cup {GetContainer(i, 1) : i \in 0..MaxRes}
        \cup {PutContainer(i, 1) : i \in 0..MaxRes}
        \cup {GetStore(i) : i \in 0..MaxRes}
        \cup {PutStore(i) : i \in 0..MaxRes}

\* The events pushed before run(), at time 0: ids 0 .. MaxProcs, MaxProcs
\* being an id that is never registered
FatalEvents == {Event(0, id, Pause) : id \in 0..MaxProcs}

InitFatal ==
    /\ EnvNew(1)
    /\ overflow_checks \in BOOLEAN

NextFatal ==
    \/ \E policy \in SchedPolicies : AddProcess(policy)
    \/ CreateResources(1)
    \/ CreateContainers(2, 1)
    \/ CreateStores(1)
    \/ \E event \in FatalEvents : PushEvent(event)
    \/ Run
    \/ \E out \in FatalYields : Step(out, 0)
    \/ Return

SpecFatal == InitFatal /\ [][NextFatal]_vars

\* The vector of the environment a yield indexes
Named(out) ==
    CASE out.tag \in {"RequestResource", "ReleaseResource"} -> resources
      [] out.tag \in {"GetContainer", "PutContainer"} -> containers
      [] out.tag \in {"GetStore", "PutStore"} -> stores
      [] OTHER -> <<>>

\* The next dispatch, with the generator doing out, meets a structural error:
\* the event's process is not registered, or it has completed and would be
\* resumed, or the yield names an index that was never created
StructuralError(out) ==
    /\ pc = "running"
    /\ events # <<>>
    /\ LET id == HeapTop(events).process_id IN
       \/ id >= Len(processes)
       \/ /\ id < Len(processes)
          /\ ~Expired(processes[id + 1], HeapTop(events).time)
          /\ \/ id \in completed
             \/ /\ out.tag \notin {"Pause", "Complete", "Timeout", "AddEvent"}
                /\ ~InRange(Named(out), out.arg)

C17_ParkContinues ==
    [][( /\ NextIsResumed
         /\ resources # <<>>
         /\ resources[1].left = 0
         /\ Step(RequestResource(0), 0) )
       => ( /\ resources'[1].queue =
                  Append(resources[1].queue,
                         Event(HeapTop(events).time, HeapTop(events).process_id,
                               RequestResource(0)))
            /\ events' = HeapPopRest(events)
            /\ pc' = "running" )]_vars

\* C18. Pool release without waiters: when a process yields ReleaseResource(0)
\* while pool 0 has no waiters, then with left < capacity left is incremented
\* by exactly one and the run goes on, and with left = capacity the release is
\* fatal.
C18_ReleaseNoWaiters ==
    [][( /\ NextIsResumed
         /\ resources # <<>>
         /\ resources[1].queue = <<>>
         /\ Step(ReleaseResource(0), 0) )
       => IF resources[1].left < resources[1].capacity
          THEN /\ resources'[1].left = resources[1].left + 1
               /\ pc' = "running"
          ELSE pc' = "panicked"]_vars

\* ------------------------------------------- a pool alone, any release
\* request and release called on pool 0 in any order, a release by a process
\* that holds no unit included; who holds a unit is not recorded.

\* env.resources[0].request(event), by any process
PoolRequestAny(event) ==
    /\ pc = "setup"
    /\ resources # <<>>
    /\ Len(resources[1].queue) < MaxWait
    /\ LET r == ResourcesRequest(resources[1], event) IN
       /\ resources' = [resources EXCEPT ![1] = r.res]
       /\ ret' = IF r.ok THEN Returned("request", TRUE, <<r.val>>, 0, "")
                 ELSE Returned("request", FALSE, <<>>, 0, r.val)
    /\ UNCHANGED <<events, past_events, processes, stores, containers, time,
                   stop, rng, logs, completed, pc, overflow_checks, fifo,
                   holders>>

\* env.resources[0].release(event), by any process
PoolReleaseAny(event) ==
    /\ pc = "setup"
    /\ resources # <<>>
    /\ LET r == ResourcesRelease(resources[1], event) IN
       /\ resources' = [resources EXCEPT ![1] = r.res]
       /\ ret' = IF r.ret.some
                 THEN Returned("release", TRUE, <<r.ret.val>>, 0, "")
                 ELSE Returned("release", FALSE, <<>>, 0, "")
       /\ pc' = IF r.panic THEN "panicked" ELSE pc
    /\ UNCHANGED <<events, past_events, processes, stores, containers, time,
                   stop, rng, logs, completed, overflow_checks, fifo, holders>>

NextPoolAny ==
    \/ \E capacity \in 0..MaxCap : CreateResources(capacity)
    \/ \E event \in PoolRequestEvents : PoolRequestAny(event)
    \/ \E event \in PoolReleaseEvents : PoolReleaseAny(event)

SpecPoolAny == InitPool /\ [][NextPoolAny]_vars

\* C19. Pool wait-list invariant: after any sequence of request and release
\* calls on a pool, 0 <= left <= capacity, and a non-empty wait list implies
\* left = 0.
C19_WaitListInvariant ==
    \A i \in 1..Len(resources) :
        /\ 0 <= resources[i].left
        /\ resources[i].left <= resources[i].capacity
        /\ resources[i].queue # <<>> => resources[i].left = 0

\* C19's case: a release has just handed its unit to the head waiter of a pool
\* of capacity MaxCap, another waiter is still parked, and left is still 0.
C19_Witness ==
    /\ resources # <<>>
    /\ resources[1].capacity = MaxCap
    /\ ret.op = "release" /\ ret.ok
    /\ resources[1].queue # <<>>
    /\ resources[1].left = 0

\* ------------------------------------------------ buffers and queues in a run
\* Processes that get from and put to buffer 0 (capacity 2, level 1) and queue
\* 0 (capacity 1).

IntentYields ==
    {Pause, PutContainer(0, 1), GetStore(0), PutStore(0)}
        \cup {GetContainer(0, amount) : amount \in {-1, 1, 2}}

NextIntent ==
    \/ AddProcess(Standard)
    \/ CreateContainers(2, 1)
    \/ CreateStores(1)
    \/ \E event \in InitEvents : PushEvent(event)
    \/ Run
    \/ \E out \in IntentYields : Step(out, 0)
    \/ Return

SpecIntent == InitPoolEnv /\ [][NextIntent]_vars

\* The yield out asks buffer 0 for a negative amount or for more than its
\* level, or asks queue 0 for an item while it holds none
UserIntentError(out) ==
    \/ /\ out.tag = "GetContainer"
       /\ containers # <<>>
       /\ HasLevel(containers[1])
       /\ (out.amt < 0 \/ Level(containers[1]) < out.amt)
    \/ /\ out.tag = "GetStore"
       /\ stores # <<>>
       /\ stores[1].state = <<>>

\* C20. User-intent errors do not abort the run: when a process yields
\* GetContainer(0) for more than the level or for a negative amount, or
\* GetStore(0) on an empty queue, the run is not aborted and goes on
\* dispatching.
C20_IntentErrorContinues ==
    [][\A out \in IntentYields :
         (NextIsResumed /\ UserIntentError(out) /\ Step(out, 0))
            => pc' = "running"]_vars

\* ------------------------------------------------- a queue alone, delivery

\* C21. A parked consumer is woken by a later put: a put on a queue whose
\* pending_gets (gets) holds a parked requester removes the head requester from
\* gets and produces a woken event carrying the producer's payload with the
\* consumer's process id and the time of the put.
C21_PutWakesConsumer ==
    [][\A event \in StorePutEvents :
         ( /\ stores # <<>>
           /\ stores[1].gets # <<>>
           /\ StorePut(event) )
         => ( /\ stores'[1].gets = Tail(stores[1].gets)
              /\ ret'.event =
                    <<Event(event.time, Head(stores[1].gets).process_id,
                            event.state)>> )]_vars

\* The items put and not yet delivered, in the order they were put: the items
\* buffered in state, then the puts parked in puts
Undelivered(s) == s.state \o s.puts

\* C22. Queue FIFO delivery: on a queue of capacity >= 1 the undelivered items
\* form a first-in-first-out sequence. A put appends its item at the end (a
\* parked put is not overtaken or lost); a successful get returns the payload
\* at the front with the requester's process id and time and removes it; a get
\* fails only when nothing is undelivered.
C22_FifoDelivery ==
    /\ [][\A event \in StorePutEvents :
            (stores # <<>> /\ stores[1].capacity >= 1 /\ StorePut(event)) =>
                Undelivered(stores'[1]) = Append(Undelivered(stores[1]), event)]_vars
    /\ [][\A event \in StoreGetEvents :
            (stores # <<>> /\ stores[1].capacity >= 1 /\ StoreGet(event)) =>
                IF Undelivered(stores[1]) # <<>>
                THEN /\ ret'.ok
                     /\ ret'.event =
                           <<Event(event.time, event.process_id,
                                   Head(Undelivered(stores[1])).state)>>
                     /\ Undelivered(stores'[1]) = Tail(Undelivered(stores[1]))
                ELSE /\ ~ret'.ok
                     /\ Undelivered(stores'[1]) = <<>>]_vars

\* C22's case: a get by process 1 at time 1 has just returned the oldest
\* payload, rebadged, while a later item with another payload is buffered and
\* a put is still parked.
C22_Witness ==
    /\ stores # <<>>
    /\ ret.op = "get" /\ ret.ok
    /\ ret.event[1].process_id = 1
    /\ ret.event[1].time = 1
    /\ stores[1].state # <<>>
    /\ stores[1].puts # <<>>
    /\ ret.event[1].state.amt # Head(stores[1].state).state.amt
    /\ Head(stores[1].state).state.amt # Head(stores[1].puts).state.amt

\* ------------------------------------------------------- every policy
\* Processes of every execution policy, with Infinite and Finite lifetimes,
\* and buffer 0 (capacity 2, level 1). The horizon is 2 and the events pushed
\* before run() are within it, so that no time reaches the top of the u64 range.

\* The policies: one of every kind, with Infinite and Finite lifetimes
Policies ==
    {Standard, Constant(1, Finite(0, 1)), Deterministic(2, Infinite(0)),
     Stochastic(Infinite(0)), Stochastic(Finite(0, 1))}

\* What a resumed generator does
PolicyYields == {Pause, Complete, PutContainer(0, 1)}

\* What a rounded sample can be
PolicySamples == {0, 1}

\* The events pushed before run()
PolicyEvents == {Event(t, id, Pause) : t \in {0, 2}, id \in 0..(MaxProcs - 1)}

InitPolicy ==
    /\ EnvNew(2)
    /\ overflow_checks \in BOOLEAN

PolicyStep == \E out \in PolicyYields, sample \in PolicySamples : Step(out, sample)

NextPolicy ==
    \/ \E policy \in Policies : AddProcess(policy)
    \/ CreateContainers(2, 1)
    \/ \E event \in PolicyEvents : PushEvent(event)
    \/ Run
    \/ PolicyStep
    \/ Return

SpecPolicy == InitPolicy /\ [][NextPolicy]_vars

\* The next dispatch pops an event of a registered process
NextIsKnown ==
    /\ pc = "running"
    /\ events # <<>>
    /\ HeapTop(events).process_id < Len(processes)

\* The policy of the process the next dispatch is for
NextPolicyOf == processes[HeapTop(events).process_id + 1]

\* C23. Finite lifetime end: an event of a process with lifetime
\* Finite(start, end) popped at a time > end is dropped with no resume (the
\* generator's return is not taken, the buffer is not touched), no RNG draw,
\* no resource mutation and no new event; an event at a time <= end, end
\* itself included, is resumed (a generator that returns then has completed).
C23_FiniteEnd ==
    [][\A out \in PolicyYields, sample \in PolicySamples :
         ( /\ NextIsKnown
           /\ NextPolicyOf.kind # "Standard"
           /\ NextPolicyOf.dur.kind = "Finite"
           /\ HeapTop(events).process_id \notin completed
           /\ Step(out, sample) )
         => IF HeapTop(events).time > NextPolicyOf.dur.end
            THEN /\ rng' = rng
                 /\ events' = HeapPopRest(events)
                 /\ pc' = "running"
                 /\ UNCHANGED <<resources, containers, stores, completed>>
            ELSE out = Complete =>
                    HeapTop(events).process_id \in completed']_vars

\* C23's case: a Stochastic process with lifetime Finite(0, 1) has completed
\* when resumed at time 1 or before, an event at time 2 has been dispatched
\* since, and no draw beyond the two possible up to time 1 was taken.
C23_Witness ==
    /\ pc = "running"
    /\ time = 2
    /\ processes # <<>>
    /\ processes[1] = Stochastic(Finite(0, 1))
    /\ 0 \in completed
    /\ rng >= 1

\* C24. Pause does not self-reschedule: when a dispatched process yields
\* Pause the dispatch enqueues no event at all, whatever the execution policy.
C24_PauseNoReschedule ==
    [][\A sample \in PolicySamples :
         (NextIsResumed /\ Step(Pause, sample))
            => events' = HeapPopRest(events)]_vars

\* C25. RNG discipline: the number of draws taken from the RNG grows by
\* exactly one in a dispatch of an event that belongs to a Stochastic-policy
\* process and is admitted by its lifetime window, and stays as it is in every
\* other step (an event dropped past end, an event of a process of another
\* policy, a call of the API); it is 0 before the run.
C25_RngDiscipline ==
    /\ [](pc = "setup" => rng = 0)
    /\ [][rng' = rng +
            (IF /\ NextIsKnown
                /\ PolicyStep
                /\ NextPolicyOf.kind = "Stochastic"
                /\ ~( /\ NextPolicyOf.dur.kind = "Finite"
                      /\ HeapTop(events).time > NextPolicyOf.dur.end )
             THEN 1 ELSE 0)]_vars

\* C25's case: a Stochastic process with lifetime Finite(0, 1), registered
\* beside a Constant one, has drawn at times 0 and 1 and no event at time 2
\* (its own, dropped, or the other process's) has drawn.
C25_Witness ==
    /\ pc = "running"
    /\ Len(processes) = 2
    /\ processes[1] = Stochastic(Finite(0, 1))
    /\ processes[2].kind = "Constant"
    /\ time = 2
    /\ rng = 2

\* ------------------------------------------------- strictly-future scheduling

\* C26. Strictly-future scheduling: every event a dispatch inserts into the
\* queue through add_events has a time t with current_time < t <= stop (so no
\* dispatch creates an event at the current time), and so has every event a
\* call of add_events before run() inserts.
C26_StrictlyFuture ==
    /\ [][(pc = "running" /\ events # <<>>) =>
            \A i \in Len(fifo)..Len(fifo') :
                /\ time' < fifo'[i].time
                /\ fifo'[i].time <= stop]_vars
    /\ [][\A id \in 0..(MaxProcs - 1), d \in U64 :
            AddEventsCall(id, d, Pause) =>
                \A i \in (Len(fifo) + 1)..Len(fifo') :
                    /\ time < fifo'[i].time
                    /\ fifo'[i].time <= stop]_vars

====
